---------------------------- MODULE Spec2Model ----------------------------
(***************************************************************************)
(* Weather monitor and email notifier (src/index.js).                      *)
(*                                                                         *)
(* The process verifies its mail transport, arms a one-shot timer for the  *)
(* next 08:00, starts the air-quality alert job, and then lives on two     *)
(* timers.  The model keeps the event loop's view of it: the timer list,   *)
(* the job invocations suspended at an await, main's position, the clock.  *)
(*                                                                         *)
(* Time is counted in milliseconds of a scaled-down calendar: a second has *)
(* MsPerSec milliseconds, a minute one second, an hour one minute, a day   *)
(* 24 hours.  Local time has a fixed offset (no daylight saving).  The     *)
(* epoch, time 0, is 2021-01-01 00:00:00.000 local, a Friday.              *)
(*                                                                         *)
(* Timers are ideal: a callback runs at the instant its timer is due, and  *)
(* a synchronous stretch of code takes no time, except main's scheduling   *)
(* stretch, whose clock reads may straddle one millisecond tick.           *)
(***************************************************************************)
EXTENDS Integers, Sequences, FiniteSets, TLC

VARIABLES
    now,         \* the wall clock, in ms since the epoch
    alive,       \* FALSE once the runtime ended the process on an unhandled rejection
    mainPc,      \* main's position: "verify", "awaitAlert", "done"
    verified,    \* how transporter.verify() settled: "pending", "ok", "failed"
    errLogged,   \* main's catch ran console.log(err): "none", "verify", "alert"
    timers,      \* the runtime's timer list: sequence of [kind, due, period]
    jobs,        \* job invocations suspended at an await: set of [job, caller, at, due, aq]
    lastMail,    \* the last message handed to transporter.sendMail
    startDate,   \* main's startDate (line 267/271), -1 before it is computed
    timeLeft,    \* main's timeLeft (line 276)
    schedRead,   \* the clock value main's first new Date() read (line 267), -1 before
    fcCount,     \* number of weatherForecastJob starts so far
    fcPrevStart, \* start time of the forecast run before the last one, -1 if none
    fcLastStart, \* start time of the last forecast run, -1 if none
    fcFirstDone, \* time the first forecast run returned normally, -1 if it has not
    fcFirst,     \* first forecast run: "none", "running", "ok", "err"
    alFirst,     \* initial alert run: "none", "aq", "mail", "ok", "err"
    fcArms,      \* number of times the 24 h forecast interval was armed
    alArms,      \* number of times the 2 min alert interval was armed
    alStarts,    \* number of alert runs started by the interval timer, capped at 2
    fcFilter,    \* last run of the forecast job's filter: [today, input, kept]
    aqApi,       \* what the realtime endpoint answers: sequence of <<key, value>>
    wxApi,       \* what the hourly endpoint answers: sequence of [dayOffset, hour, code]
    qbReq,       \* queryBuilder's request argument (a string as a sequence of characters)
    qbOpts,      \* queryBuilder's options argument: sequence of <<key, value>>
    qbOut,       \* queryBuilder's result, <<>> before the call
    clockStop    \* the instant the model stops the clock at

vars == <<now, alive, mainPc, verified, errLogged, timers, jobs, lastMail, startDate,
          timeLeft, schedRead, fcCount, fcPrevStart, fcLastStart, fcFirstDone,
          fcFirst, alFirst, fcArms, alArms, alStarts, fcFilter, aqApi, wxApi,
          qbReq, qbOpts, qbOut, clockStop>>

(***************************************************************************)
(* Bounds of the model.                                                    *)
(***************************************************************************)
\* Milliseconds per second of the scaled calendar (1000 in reality).
MsPerSec == 2
\* An await completes 0..MaxWait ms after it began, or never (a hang).
MaxWait == 1
\* The clock is followed for HorizonHours hours after the check of the
\* transport; DailyHours hours where the daily repetition is followed.
HorizonHours == 26
DailyHours == 50
\* queryBuilder is applied to mappings of at most MaxKeys keys.
MaxKeys == 2
\* The hourly endpoint answers at most MaxRecords records.
MaxRecords == 2

Never == -1
None == [kind |-> "none", weatherForecast |-> <<>>, airQuality |-> <<>>,
         attachments |-> <<>>]

Min(S) == CHOOSE x \in S : \A y \in S : x <= y

(***************************************************************************)
(* The calendar: what Date's getters and setters compute.                  *)
(***************************************************************************)
MsPerMin == MsPerSec
MsPerHour == MsPerMin
MsPerDay == 24 * MsPerHour

\* Days of January, February, March 2021.
MonthLengths == <<31, 28, 31>>

DayIndex(t) == t \div MsPerDay

RECURSIVE MonthOf(_, _)
\* The month (1-based) holding day index d, counting from month m whose
\* first day has index 0.
MonthOf(d, m) ==
    IF m >= Len(MonthLengths) \/ d < MonthLengths[m] THEN m
    ELSE MonthOf(d - MonthLengths[m], m + 1)

RECURSIVE MonthStart(_)
\* Day index of the first day of month m.
MonthStart(m) == IF m = 1 THEN 0 ELSE MonthStart(m - 1) + MonthLengths[m - 1]

\* Date.prototype.getHours, getDate (day of month), getDay (day of week).
getHours(t) == (t % MsPerDay) \div MsPerHour
getDate(t) == DayIndex(t) - MonthStart(MonthOf(DayIndex(t), 1)) + 1
getDay(t) == (DayIndex(t) + 5) % 7

\* Date.prototype.setHours(h, m, s): hours, minutes and seconds are set, the
\* milliseconds of t are kept.
setHours(t, h, m, s) ==
    DayIndex(t) * MsPerDay + h * MsPerHour + m * MsPerMin + s * MsPerSec
        + (t % MsPerSec)

\* Date.prototype.setDate(n): day n of t's month (overflowing into the next
\* month), the time of day kept.
setDate(t, n) ==
    (MonthStart(MonthOf(DayIndex(t), 1)) + n - 1) * MsPerDay + (t % MsPerDay)

oneDayInMs == 24 * MsPerHour
startHMS == <<8, 0, 0>>
alertIntervalMs == 2 * MsPerMin

(***************************************************************************)
(* queryBuilder.  A string is a sequence of one-character strings; a value *)
(* is [type, n, s, items] with type "number", "string", "array", "other".  *)
(***************************************************************************)
Digits == <<"0", "1", "2", "3", "4", "5", "6", "7", "8", "9">>

RECURSIVE NumText(_)
\* The decimal text a template literal gives a non-negative integer.
NumText(n) ==
    IF n < 10 THEN <<Digits[n + 1]>>
    ELSE NumText(n \div 10) \o <<Digits[(n % 10) + 1]>>

IsScalar(v) == v.type \in {"number", "string"}

Text(v) == IF v.type = "number" THEN NumText(v.n) ELSE v.s

\* Lines 35-38 and 42-45: '&' unless the request ends in '?', then key=value.
EmitPair(request, key, v) ==
    (IF request[Len(request)] # "?" THEN request \o <<"&">> ELSE request)
        \o key \o <<"=">> \o Text(v)

RECURSIVE EmitArray(_, _, _)
EmitArray(request, key, items) ==
    IF items = <<>> THEN request
    ELSE EmitArray(IF IsScalar(Head(items))
                     THEN EmitPair(request, key, Head(items))
                     ELSE request,
                   key, Tail(items))

RECURSIVE EmitKeys(_, _)
EmitKeys(request, options) ==
    IF options = <<>> THEN request
    ELSE LET key == Head(options)[1]
             v == Head(options)[2]
         IN EmitKeys(IF IsScalar(v) THEN EmitPair(request, key, v)
                     ELSE IF v.type = "array" THEN EmitArray(request, key, v.items)
                     ELSE request,
                     Tail(options))

queryBuilder(request, options) == EmitKeys(request \o <<"?">>, options)

(***************************************************************************)
(* Formatters and the two filters.  An API object is a sequence of         *)
(* <<key, value>> in the object's own key order; an hourly record keeps    *)
(* its observation time and weather code (the copied temp, humidity and    *)
(* wind_speed pairs take no part in any decision and are left out).        *)
(***************************************************************************)
AIR_QUALITY_INDICATOR == <<"pm10", "pm25", "o3", "no2", "co", "so2">>

\* airQualityData[key].value
Get(obj, key) == obj[CHOOSE i \in 1..Len(obj) : obj[i][1] = key][2]

formatWeatherData(data) ==
    [i \in 1..Len(data) |->
        [hour |-> getHours(data[i].observation_time),
         weather_image |-> <<"./summary-icons/", data[i].weather_code, ".png">>,
         cid |-> <<"wid", i - 1>>]]

formatAirQualityData(airQualityData) ==
    [i \in 1..Len(AIR_QUALITY_INDICATOR) |->
        [indicator |-> AIR_QUALITY_INDICATOR[i],
         current_value |-> Get(airQualityData, AIR_QUALITY_INDICATOR[i]),
         air_image |-> <<"./legends/", AIR_QUALITY_INDICATOR[i], "-legend.png">>,
         cid |-> <<"aid", i - 1>>]]

\* Lines 200-205: one attachment per formatted weather entry.
WeatherAttachments(entries) ==
    [i \in 1..Len(entries) |->
        [path |-> entries[i].weather_image, cid |-> entries[i].cid]]

\* Lines 207-212 and 245-250: one attachment per air-quality entry.
AirAttachments(entries) ==
    [i \in 1..Len(entries) |->
        [path |-> entries[i].air_image, cid |-> entries[i].cid]]

thresholds ==
    [co |-> 7000, no2 |-> 230, o3 |-> 145, pm10 |-> 204, pm25 |-> 45, so2 |-> 131]

ExceedsOrEquals(e) == e.current_value >= thresholds[e.indicator]

\* Line 239: the alert filter's predicate.
Exceeds(e) == e.current_value > thresholds[e.indicator]

desiredHours == {8, 10, 12, 14, 16, 18, 20, 22}

\* Lines 188-192: the forecast filter, with `today` the clock at the filter.
Desired(e, today) ==
    /\ getHours(e.observation_time) \in desiredHours
    /\ getDay(e.observation_time) = getDay(today)

FilterToday(weatherData, today) ==
    LET Keep(e) == Desired(e, today) IN SelectSeq(weatherData, Keep)

\* What the hourly endpoint answers at time t: records dayOffset days after
\* t's day, at the full hour given.
WeatherAt(t) ==
    [i \in 1..Len(wxApi) |->
        [observation_time |->
            (DayIndex(t) + wxApi[i].dayOffset) * MsPerDay + wxApi[i].hour * MsPerHour,
         weather_code |-> wxApi[i].code]]

(***************************************************************************)
(* Timers and awaits.                                                      *)
(***************************************************************************)
\* The runtime's longest timer delay, 2^31 - 1 ms: 596 hours and a half.
TIMEOUT_MAX == 596 * MsPerHour + MsPerHour \div 2

\* setTimeout and setInterval take a delay below 1 ms, or above the longest
\* one, as 1 ms.
TimerDelay(d) == IF d < 1 \/ d > TIMEOUT_MAX THEN 1 ELSE d

\* The instants at which an await begun at t may complete.
Dues(t) == {t + d : d \in 0..MaxWait} \cup {Never}

forecastRepeatMs_Hourly == MsPerHour

\* Line 299: the repeat period handed to the forecast setInterval.
forecastRepeatMs == oneDayInMs

Timer(kind, due, period) == [kind |-> kind, due |-> due, period |-> period]

Job(job, caller, at, due, aq) ==
    [job |-> job, caller |-> caller, at |-> at, due |-> due, aq |-> aq]

RemoveAt(s, i) == [k \in 1..(Len(s) - 1) |-> IF k < i THEN s[k] ELSE s[k + 1]]

\* An interval timer that fired is due again one period after the instant
\* it was due, whatever its callback then does.
Rearm(s, i) == [s EXCEPT ![i].due = s[i].due + s[i].period]

Pending ==
    {timers[i].due : i \in 1..Len(timers)}
        \cup {j.due : j \in {x \in jobs : x.due # Never}}

qbVars == <<qbReq, qbOpts, qbOut>>
envVars == <<aqApi, wxApi, clockStop, verified>>
schedVars == <<startDate, timeLeft, schedRead>>
fcStartVars == <<fcCount, fcPrevStart, fcLastStart>>

(***************************************************************************)
(* main (lines 259-310).                                                   *)
(***************************************************************************)
\* The i-th clock read of main's scheduling stretch, when the clock ticks
\* before read number tickAt.
Read(i, tickAt) == IF i < tickAt THEN now ELSE now + 1

\* Lines 283-300: what main arms before it calls the alert job.
ArmedBySchedule_AlertToo(t, delay) ==
    <<Timer("fcTimeout", t + TimerDelay(delay), 0),
      Timer("alInterval", t + TimerDelay(alertIntervalMs), TimerDelay(alertIntervalMs))>>

ArmedBySchedule(t, delay) == <<Timer("fcTimeout", t + TimerDelay(delay), 0)>>

\* Lines 264-303, up to the alert job's first await.  The clock is read at
\* line 267 (r1), 269 (r2), 270 (r3), 271 (r4) and 276 (r5).
MainSchedule ==
    \E tickAt \in 2..6 : \E due \in Dues(Read(5, tickAt)) :
        LET r1 == Read(1, tickAt)
            r2 == Read(2, tickAt)
            r3 == Read(3, tickAt)
            r4 == Read(4, tickAt)
            r5 == Read(5, tickAt)
            today == setHours(r1, startHMS[1], startHMS[2], startHMS[3])
            sd == IF r2 > today
                    THEN setHours(setDate(r4, getDate(r3) + 1),
                                  startHMS[1], startHMS[2], startHMS[3])
                    ELSE today
        IN /\ startDate' = sd
           /\ timeLeft' = sd - r5
           /\ schedRead' = r1
           /\ now' = r5
           /\ timers' = timers \o ArmedBySchedule(r5, sd - r5)
           /\ jobs' = jobs \cup {Job("alert", "main", "aq", due, <<>>)}
           /\ mainPc' = "awaitAlert"
           /\ alFirst' = "aq"
           /\ UNCHANGED <<alive, errLogged, lastMail, fcStartVars, fcFirstDone,
                          fcFirst, fcArms, alArms, alStarts, fcFilter, aqApi, wxApi, clockStop,
                          qbVars>>

\* Lines 307-309: the catch of a failed transporter.verify().
MainCatchVerify ==
    /\ errLogged' = "verify"
    /\ mainPc' = "done"
    /\ UNCHANGED <<now, alive, timers, jobs, lastMail, schedVars, fcStartVars,
                   fcFirstDone, fcFirst, alFirst, fcArms, alArms, alStarts,
                   fcFilter, aqApi, wxApi, clockStop, qbVars>>

MainAfterVerify_Unchecked(ok) == MainSchedule

\* Line 261: main resumes after `await transporter.verify()`.
MainAfterVerify(ok) == IF ok THEN MainSchedule ELSE MainCatchVerify

VerifyDone ==
    /\ alive
    /\ mainPc = "verify"
    /\ \E ok \in BOOLEAN :
        /\ verified' = IF ok THEN "ok" ELSE "failed"
        /\ MainAfterVerify(ok)

(***************************************************************************)
(* The clock and the timers.                                               *)
(***************************************************************************)
\* Time passes to the next instant something is due.
Tick ==
    /\ alive
    /\ Pending # {}
    /\ \A d \in Pending : d > now
    /\ Min(Pending) <= clockStop
    /\ now' = Min(Pending)
    /\ UNCHANGED <<alive, mainPc, errLogged, timers, jobs, lastMail, schedVars,
                   fcStartVars, fcFirstDone, fcFirst, alFirst, fcArms, alArms,
                   alStarts, fcFilter, envVars, qbVars>>

\* weatherForecastJob up to its first await (lines 181-183).
StartForecast(caller, due) ==
    /\ jobs' = jobs \cup {Job("forecast", caller, "aq", due, <<>>)}
    /\ fcCount' = fcCount + 1
    /\ fcPrevStart' = fcLastStart
    /\ fcLastStart' = now

\* Line 283: the one-shot timer fires.
FireForecastTimeout ==
    /\ alive
    /\ \E i \in 1..Len(timers), due \in Dues(now) :
        /\ timers[i].kind = "fcTimeout"
        /\ timers[i].due = now
        /\ timers' = RemoveAt(timers, i)
        /\ StartForecast("timeout", due)
        /\ fcFirst' = "running"
    /\ UNCHANGED <<now, alive, mainPc, errLogged, lastMail, schedVars,
                   fcFirstDone, alFirst, fcArms, alArms, alStarts, fcFilter,
                   envVars, qbVars>>

\* Line 292: the 24 h interval fires.
FireForecastInterval ==
    /\ alive
    /\ \E i \in 1..Len(timers), due \in Dues(now) :
        /\ timers[i].kind = "fcInterval"
        /\ timers[i].due = now
        /\ timers' = Rearm(timers, i)
        /\ StartForecast("interval", due)
    /\ UNCHANGED <<now, alive, mainPc, errLogged, lastMail, schedVars,
                   fcFirstDone, fcFirst, alFirst, fcArms, alArms, alStarts,
                   fcFilter, envVars, qbVars>>

\* Line 304: the 2 min interval fires; airQualityAlertJob up to its await.
FireAlertInterval ==
    /\ alive
    /\ \E i \in 1..Len(timers), due \in Dues(now) :
        /\ timers[i].kind = "alInterval"
        /\ timers[i].due = now
        /\ timers' = Rearm(timers, i)
        /\ jobs' = jobs \cup {Job("alert", "interval", "aq", due, <<>>)}
    /\ alStarts' = IF alStarts < 2 THEN alStarts + 1 ELSE alStarts
    /\ UNCHANGED <<now, alive, mainPc, errLogged, lastMail, schedVars,
                   fcStartVars, fcFirstDone, fcFirst, alFirst, fcArms, alArms,
                   fcFilter, envVars, qbVars>>

(***************************************************************************)
(* weatherForecastJob (lines 180-221) and the callbacks that await it.     *)
(***************************************************************************)
ArmsForecastInterval_Always(caller) == TRUE

\* Lines 283-300: only the one-shot timer's callback goes on to setInterval.
ArmsForecastInterval(caller) == caller = "timeout"

\* The job returned: its callback resumes after `await weatherForecastJob()`.
ForecastReturn(caller) ==
    /\ timers' = IF ArmsForecastInterval(caller)
                   THEN Append(timers, Timer("fcInterval",
                                             now + TimerDelay(forecastRepeatMs),
                                             TimerDelay(forecastRepeatMs)))
                   ELSE timers
    /\ fcArms' = IF ArmsForecastInterval(caller) THEN fcArms + 1 ELSE fcArms
    /\ fcFirst' = IF caller = "timeout" THEN "ok" ELSE fcFirst
    /\ fcFirstDone' = IF caller = "timeout" THEN now ELSE fcFirstDone
    /\ alive' = alive

\* The job threw inside a timer callback: an unhandled rejection, which the
\* runtime either only reports or ends the process on.
ForecastThrow(caller) ==
    /\ \E crash \in BOOLEAN : alive' = ~crash
    /\ fcFirst' = IF caller = "timeout" THEN "err" ELSE fcFirst
    /\ UNCHANGED <<timers, fcArms, fcFirstDone>>

\* Line 183: getAirQualityData() settles.
ForecastAqDone ==
    /\ alive
    /\ \E j \in jobs :
        /\ j.job = "forecast" /\ j.at = "aq" /\ j.due = now
        /\ \/ /\ \E due \in Dues(now) :
                    jobs' = (jobs \ {j})
                              \cup {Job("forecast", j.caller, "wx", due, aqApi)}
              /\ UNCHANGED <<timers, fcArms, fcFirst, fcFirstDone, alive>>
           \/ /\ jobs' = jobs \ {j}
              /\ ForecastThrow(j.caller)
    /\ UNCHANGED <<now, mainPc, errLogged, lastMail, schedVars, fcStartVars,
                   alFirst, alArms, alStarts, fcFilter, envVars, qbVars>>

\* Lines 184-214: getWeatherData() settles; filter, format, attach, send.
ForecastWxDone ==
    /\ alive
    /\ \E j \in jobs :
        /\ j.job = "forecast" /\ j.at = "wx" /\ j.due = now
        /\ \/ LET weatherData == WeatherAt(now)
                  desiredWeatherData == FilterToday(weatherData, now)
                  formattedWeatherData == formatWeatherData(desiredWeatherData)
                  formattedAirQualityData == formatAirQualityData(j.aq)
              IN /\ \E due \in Dues(now) :
                       jobs' = (jobs \ {j})
                                 \cup {Job("forecast", j.caller, "mail", due, j.aq)}
                 /\ lastMail' =
                        [kind |-> "forecast",
                         weatherForecast |-> formattedWeatherData,
                         airQuality |-> formattedAirQualityData,
                         attachments |->
                             WeatherAttachments(formattedWeatherData)
                                 \o AirAttachments(formattedAirQualityData)]
                 /\ fcFilter' = [today |-> now, input |-> weatherData,
                                 kept |-> desiredWeatherData]
                 /\ UNCHANGED <<timers, fcArms, fcFirst, fcFirstDone, alive>>
           \/ /\ jobs' = jobs \ {j}
              /\ ForecastThrow(j.caller)
              /\ UNCHANGED <<lastMail, fcFilter>>
    /\ UNCHANGED <<now, mainPc, errLogged, schedVars, fcStartVars, alFirst,
                   alArms, alStarts, envVars, qbVars>>

\* Lines 153 and 214-221: transporter.sendMail settles.
ForecastMailDone ==
    /\ alive
    /\ \E j \in jobs :
        /\ j.job = "forecast" /\ j.at = "mail" /\ j.due = now
        /\ jobs' = jobs \ {j}
        /\ \/ ForecastReturn(j.caller)
           \/ ForecastThrow(j.caller)
    /\ UNCHANGED <<now, mainPc, errLogged, lastMail, schedVars, fcStartVars,
                   alFirst, alArms, alStarts, fcFilter, envVars, qbVars>>

(***************************************************************************)
(* airQualityAlertJob (lines 224-256) and the code that awaits it.         *)
(***************************************************************************)
\* The job returned: main goes on to line 304, an interval callback ends.
AlertReturn(caller) ==
    /\ timers' = IF caller = "main"
                   THEN Append(timers, Timer("alInterval",
                                             now + TimerDelay(alertIntervalMs),
                                             TimerDelay(alertIntervalMs)))
                   ELSE timers
    /\ alArms' = IF caller = "main" THEN alArms + 1 ELSE alArms
    /\ mainPc' = IF caller = "main" THEN "done" ELSE mainPc
    /\ alFirst' = IF caller = "main" THEN "ok" ELSE alFirst
    /\ UNCHANGED <<errLogged, alive>>

\* The job threw: main's catch logs it (lines 307-309); in an interval
\* callback it is an unhandled rejection.
AlertThrow(caller) ==
    /\ errLogged' = IF caller = "main" THEN "alert" ELSE errLogged
    /\ mainPc' = IF caller = "main" THEN "done" ELSE mainPc
    /\ alFirst' = IF caller = "main" THEN "err" ELSE alFirst
    /\ \E crash \in BOOLEAN : alive' = IF caller = "main" THEN alive ELSE ~crash
    /\ UNCHANGED <<timers, alArms>>

\* Lines 226-255: getAirQualityData() settles; format, compare, maybe send.
AlertAqDone ==
    /\ alive
    /\ \E j \in jobs :
        /\ j.job = "alert" /\ j.at = "aq" /\ j.due = now
        /\ LET formattedAirQualityData == formatAirQualityData(aqApi)
               alertsForTheseIndicators == SelectSeq(formattedAirQualityData, Exceeds)
           IN \/ IF alertsForTheseIndicators # <<>>
                   THEN /\ \E due \in Dues(now) :
                              jobs' = (jobs \ {j})
                                  \cup {Job("alert", j.caller, "mail", due, aqApi)}
                        /\ lastMail' =
                               [kind |-> "alert",
                                weatherForecast |-> <<>>,
                                airQuality |-> alertsForTheseIndicators,
                                attachments |->
                                    AirAttachments(alertsForTheseIndicators)]
                        /\ alFirst' = IF j.caller = "main" THEN "mail" ELSE alFirst
                        /\ UNCHANGED <<timers, alArms, mainPc, errLogged, alive>>
                   ELSE /\ jobs' = jobs \ {j}
                        /\ AlertReturn(j.caller)
                        /\ UNCHANGED lastMail
              \/ /\ jobs' = jobs \ {j}
                 /\ AlertThrow(j.caller)
                 /\ UNCHANGED lastMail
    /\ UNCHANGED <<now, schedVars, fcStartVars, fcFirstDone, fcFirst, fcArms,
                   alStarts, fcFilter, envVars, qbVars>>

\* Lines 176 and 251-252: transporter.sendMail settles.
AlertMailDone ==
    /\ alive
    /\ \E j \in jobs :
        /\ j.job = "alert" /\ j.at = "mail" /\ j.due = now
        /\ jobs' = jobs \ {j}
        /\ \/ AlertReturn(j.caller)
           \/ AlertThrow(j.caller)
    /\ UNCHANGED <<now, lastMail, schedVars, fcStartVars, fcFirstDone, fcFirst,
                   fcArms, alStarts, fcFilter, envVars, qbVars>>

\* queryBuilder applied to its arguments.
QueryBuild ==
    /\ qbOut = <<>>
    /\ qbOut' = queryBuilder(qbReq, qbOpts)
    /\ UNCHANGED <<now, alive, mainPc, errLogged, timers, jobs, lastMail,
                   schedVars, fcStartVars, fcFirstDone, fcFirst, alFirst, fcArms,
                   alArms, alStarts, fcFilter, envVars, qbReq, qbOpts>>

(***************************************************************************)
(* Initial states and specifications.                                      *)
(***************************************************************************)
\* The process right after the module body ran (lines 1-28) and main began
\* to await transporter.verify().
Start ==
    /\ alive = TRUE
    /\ mainPc = "verify"
    /\ verified = "pending"
    /\ errLogged = "none"
    /\ timers = <<>>
    /\ jobs = {}
    /\ lastMail = None
    /\ startDate = -1 /\ timeLeft = 0 /\ schedRead = -1
    /\ fcCount = 0 /\ fcPrevStart = -1 /\ fcLastStart = -1 /\ fcFirstDone = -1
    /\ fcFirst = "none" /\ alFirst = "none"
    /\ fcArms = 0 /\ alArms = 0 /\ alStarts = 0
    /\ fcFilter = [today |-> -1, input |-> <<>>, kept |-> <<>>]
    /\ qbOut = <<>>

At(day, hour, ms) == day * MsPerDay + hour * MsPerHour + ms

\* Instants the check of the transport may complete at: Jan 30 and Jan 31,
\* before, at and after 08:00, every millisecond of the second.
BootTimes ==
    {At(s[1], s[2], ms) : s \in {<<29, 7>>, <<29, 8>>, <<30, 9>>, <<30, 23>>},
                          ms \in 0..(MsPerSec - 1)}

IndicatorSet == {AIR_QUALITY_INDICATOR[i] : i \in 1..Len(AIR_QUALITY_INDICATOR)}

\* The realtime answer with its keys in the given order, each value at the
\* given offset from the indicator's limit.
Reading(order, off) ==
    [i \in 1..Len(order) |-> <<order[i], thresholds[order[i]] + off[order[i]]>>]

KeyOrders ==
    {AIR_QUALITY_INDICATOR,
     <<"so2", "co", "no2", "o3", "pm25", "pm10">>,
     <<"co", "no2", "o3", "pm10", "pm25", "so2">>}

AllReadings ==
    {Reading(order, off) : order \in KeyOrders, off \in [IndicatorSet -> {-1, 0, 1}]}

\* An answer with every indicator below its limit, and one with two above.
QuietReading == Reading(AIR_QUALITY_INDICATOR, [k \in IndicatorSet |-> -1])

OneReading ==
    Reading(<<"co", "no2", "o3", "pm10", "pm25", "so2">>,
            [k \in IndicatorSet |-> IF k \in {"co", "pm25"} THEN 1 ELSE 0])

SchedReadings == {QuietReading, OneReading}

HourlyRecords ==
    [dayOffset : {0, 1, 7}, hour : {8, 9, 22}, code : {"clear"}]

HourlyAnswers ==
    UNION {[1..n -> HourlyRecords] : n \in 0..MaxRecords}

SchedWeather ==
    <<[dayOffset |-> 0, hour |-> 8, code |-> "clear"],
      [dayOffset |-> 0, hour |-> 9, code |-> "rain"],
      [dayOffset |-> 1, hour |-> 8, code |-> "clear"]>>

NoQuery == qbReq = <<>> /\ qbOpts = <<>>

Str(s) == [type |-> "string", n |-> 0, s |-> s, items |-> <<>>]
Num(n) == [type |-> "number", n |-> n, s |-> <<>>, items |-> <<>>]
Arr(items) == [type |-> "array", n |-> 0, s |-> <<>>, items |-> items]
Other == [type |-> "other", n |-> 0, s |-> <<>>, items |-> <<>>]

QueryValues ==
    {Str(<<"x">>), Str(<<"x", "?">>), Str(<<>>), Num(1), Num(20), Other,
     Arr(<<>>), Arr(<<Str(<<"x">>), Other, Num(2)>>),
     Arr(<<Str(<<"y", "?">>), Str(<<"z">>)>>)}

QueryKeys == {<<"a">>, <<"b">>, <<"c">>}

\* Mappings of at most MaxKeys distinct keys, in every iteration order.
OptionMaps ==
    {m \in UNION {[1..n -> QueryKeys \X QueryValues] : n \in 0..MaxKeys} :
        \A i, j \in 1..Len(m) : i # j => m[i][1] # m[j][1]}

\* The whole process, followed until the forecast interval has fired.
Init ==
    /\ Start
    /\ now \in {At(29, 7, MsPerSec - 1), At(29, 8, 0)}
    /\ clockStop = now + HorizonHours * MsPerHour
    /\ aqApi \in SchedReadings
    /\ wxApi = SchedWeather
    /\ NoQuery

Next ==
    \/ VerifyDone
    \/ Tick
    \/ FireForecastTimeout
    \/ FireForecastInterval
    \/ FireAlertInterval
    \/ ForecastAqDone
    \/ ForecastWxDone
    \/ ForecastMailDone
    \/ AlertAqDone
    \/ AlertMailDone

Spec == Init /\ [][Next]_vars

\* The process over two days and more, for the daily repetition, with an
\* endpoint whose answer never makes the alert job send.
InitDaily ==
    /\ Start
    /\ now = At(29, 7, MsPerSec - 1)
    /\ clockStop = now + DailyHours * MsPerHour
    /\ aqApi = QuietReading
    /\ wxApi = SchedWeather
    /\ NoQuery

NextDaily ==
    \/ VerifyDone
    \/ Tick
    \/ FireForecastTimeout
    \/ FireForecastInterval
    \/ FireAlertInterval
    \/ ForecastAqDone
    \/ ForecastWxDone
    \/ ForecastMailDone
    \/ AlertAqDone

SpecDaily == InitDaily /\ [][NextDaily]_vars

\* The process from every boot instant to the first forecast start.
InitBoot ==
    /\ Start
    /\ now \in BootTimes
    /\ clockStop = now + oneDayInMs
    /\ aqApi = OneReading
    /\ wxApi = SchedWeather
    /\ NoQuery

NextBoot ==
    \/ VerifyDone
    \/ Tick
    \/ FireForecastTimeout
    \/ FireAlertInterval
    \/ AlertAqDone
    \/ AlertMailDone

SpecBoot == InitBoot /\ [][NextBoot]_vars

\* The initial alert run, for every answer of the realtime endpoint.
InitAlert ==
    /\ Start
    /\ now = At(29, 7, 0)
    /\ clockStop = now
    /\ aqApi \in AllReadings
    /\ wxApi = SchedWeather
    /\ NoQuery

NextAlert ==
    \/ VerifyDone
    \/ AlertAqDone
    \/ AlertMailDone

SpecAlert == InitAlert /\ [][NextAlert]_vars

\* The first forecast run, for every answer of the hourly endpoint.
InitForecast ==
    /\ Start
    /\ now = At(29, 7, 0)
    /\ clockStop = now + 2 * MsPerHour
    /\ aqApi = OneReading
    /\ wxApi \in HourlyAnswers
    /\ NoQuery

NextForecast ==
    \/ VerifyDone
    \/ Tick
    \/ FireForecastTimeout
    \/ FireAlertInterval
    \/ ForecastAqDone
    \/ ForecastWxDone
    \/ ForecastMailDone
    \/ AlertAqDone
    \/ AlertMailDone

SpecForecast == InitForecast /\ [][NextForecast]_vars

\* queryBuilder on every bounded argument pair.
InitQuery ==
    /\ Start
    /\ now = At(29, 7, 0)
    /\ clockStop = now
    /\ aqApi = OneReading
    /\ wxApi = SchedWeather
    /\ qbReq \in {<<"u">>, <<"u", "?">>}
    /\ qbOpts \in OptionMaps

NextQuery == QueryBuild

SpecQuery == InitQuery /\ [][NextQuery]_vars

(***************************************************************************)
(* Properties.                                                             *)
(***************************************************************************)
HasTimer(kind) == \E i \in 1..Len(timers) : timers[i].kind = kind

CountTimers(kinds) == Cardinality({i \in 1..Len(timers) : timers[i].kind \in kinds})

\* The limit the alert job is documented to compare an indicator with.
Limit(k) ==
    CASE k = "co" -> 7000
      [] k = "no2" -> 230
      [] k = "o3" -> 145
      [] k = "pm10" -> 204
      [] k = "pm25" -> 45
      [] k = "so2" -> 131

\* The indicators of the realtime answer strictly above their limit, in
\* indicator-set order.
Exceeded ==
    SelectSeq(AIR_QUALITY_INDICATOR, LAMBDA k : Get(aqApi, k) > Limit(k))

\* C1: one run of airQualityAlertJob hands an alert mail to the transport
\* if and only if some indicator is strictly above its limit; the mail then
\* holds exactly the exceeding indicators with their values, in
\* indicator-set order whatever the answer's key order, with one attachment
\* each; with none above (a value equal to its limit included) the run sends
\* nothing and returns normally.
C1_AlertIffExceeded ==
    /\ alFirst \in {"mail", "ok"} => (lastMail.kind = "alert" <=> Exceeded # <<>>)
    /\ alFirst = "mail" => Exceeded # <<>>
    /\ (alFirst = "ok" /\ Exceeded = <<>>) => lastMail = None
    /\ lastMail.kind = "alert" =>
          /\ [i \in 1..Len(lastMail.airQuality) |-> lastMail.airQuality[i].indicator]
                = Exceeded
          /\ \A i \in 1..Len(lastMail.airQuality) :
                lastMail.airQuality[i].current_value
                    = Get(aqApi, lastMail.airQuality[i].indicator)
          /\ Len(lastMail.attachments) = Len(Exceeded)
          /\ \A i \in 1..Len(lastMail.attachments) :
                lastMail.attachments[i].path = lastMail.airQuality[i].air_image

\* An alert mail for some but not all indicators went out, from an answer
\* whose keys are not in indicator-set order and which holds a value equal
\* to its limit.
C1_Witness ==
    /\ lastMail.kind = "alert"
    /\ Len(lastMail.airQuality) \in 2..4
    /\ aqApi[1][1] = "so2"
    /\ \E k \in IndicatorSet : Get(aqApi, k) = Limit(k)
    /\ alFirst = "ok"

\* C2: the forecast filter retains an hourly record if and only if its hour
\* of day is in {8,10,12,14,16,18,20,22} and its day of month is the current
\* day of month; a record at a target hour of another day of the window is
\* never retained.
C2_SameDayTargetHours ==
    fcFilter.today # -1 =>
        fcFilter.kept =
            SelectSeq(fcFilter.input,
                      LAMBDA e :
                          /\ getHours(e.observation_time)
                                 \in {8, 10, 12, 14, 16, 18, 20, 22}
                          /\ getDate(e.observation_time) = getDate(fcFilter.today))

\* 08:00:00.000 of the day of main's first clock read, and of the next day.
TodayEight == At(DayIndex(schedRead), 8, 0)
TomorrowEight == TodayEight + MsPerDay

\* C3: the first fire time main computes lies in the second 08:00:00 of
\* today when the current time is before today's 08:00:00 and in the second
\* 08:00:00 of tomorrow when it is after; the delay handed to the one-shot
\* timer is never negative and never more than 24 hours; the forecast job
\* does not start before the fire time.
C3_NextEightOClock ==
    schedRead # -1 =>
        /\ schedRead < TodayEight => startDate - (startDate % MsPerSec) = TodayEight
        /\ schedRead > TodayEight => startDate - (startDate % MsPerSec) = TomorrowEight
        /\ timeLeft >= 0
        /\ timeLeft <= 24 * MsPerHour
        /\ fcCount = 1 => fcLastStart >= startDate

\* C4 as stated: every forecast start after the first is exactly 24 hours
\* after the previous start.
C4_EveryStartADayApart ==
    fcCount >= 2 => fcLastStart - fcPrevStart = 24 * MsPerHour

\* C4 as amended: the second forecast start is exactly 24 hours after the
\* first run returned, and every start after the second is exactly 24 hours
\* after the previous start, however long the runs take.
C4_DayApartFromSecond ==
    /\ fcCount = 2 => (fcFirstDone # -1 /\ fcLastStart = fcFirstDone + 24 * MsPerHour)
    /\ fcCount >= 3 => fcLastStart - fcPrevStart = 24 * MsPerHour

\* The third forecast run has started while the second one hangs at its
\* weather fetch.
C4_Witness ==
    /\ fcCount = 3
    /\ fcLastStart = now
    /\ \E j \in jobs : j.job = "forecast" /\ j.at = "wx" /\ j.due = Never

\* Something can still start an alert run: main is still awaiting the
\* initial run, or the alert interval is armed.
AlertSource ==
    \/ \E j \in jobs : j.job = "alert" /\ j.caller = "main"
    \/ HasTimer("alInterval")

\* Something can still start a forecast run: the one-shot timer is armed,
\* its callback is still awaiting the first run, or the interval is armed.
ForecastSource ==
    \/ HasTimer("fcTimeout")
    \/ \E j \in jobs : j.job = "forecast" /\ j.caller = "timeout"
    \/ HasTimer("fcInterval")

\* C5: once the check of the transport succeeded, and while the process
\* runs, both timelines run forever whatever the outcome of the single runs:
\* the alert job has started, and in every state each timeline still has
\* what will start its next run.
C5_TimelinesNeverEnd ==
    (verified = "ok" /\ alive) =>
        /\ alFirst # "none"
        /\ AlertSource
        /\ ForecastSource

\* C6 as stated: no two job invocations are ever in progress together.
C6_OneJobInProgress == Cardinality(jobs) <= 1

\* C6 as amended: the first run of a timeline (the alert run main awaits,
\* the forecast run of the one-shot timer) is never in progress together
\* with a repeated run of the same job; other invocations, a forecast run
\* and an alert run or two repeated runs, can be in progress together.
C6_FirstRunAlone ==
    \A j1, j2 \in jobs :
        (j1.job = j2.job /\ j1.caller # "interval") => j2.caller # "interval"

\* Two repeated alert runs and a forecast run are in progress together.
C6_Witness ==
    /\ \E j1, j2 \in jobs :
          /\ j1 # j2
          /\ j1.job = "alert" /\ j2.job = "alert"
          /\ j1.caller = "interval" /\ j2.caller = "interval"
    /\ \E j \in jobs : j.job = "forecast"

\* C7: until the check of the transport has succeeded no timer is armed, no
\* job has started and no mail was sent; when the check fails the error is
\* logged and nothing is ever armed, started or sent.
C7_NothingBeforeVerify ==
    /\ verified # "ok" =>
          /\ timers = <<>> /\ jobs = {}
          /\ fcCount = 0 /\ alFirst = "none" /\ alStarts = 0
          /\ fcArms = 0 /\ alArms = 0
          /\ lastMail = None
    /\ verified = "failed" => (errLogged = "verify" /\ mainPc = "done")
    /\ verified = "pending" => mainPc = "verify"

\* The check of the transport failed and main has logged it.
C7_Witness == verified = "failed" /\ errLogged = "verify"

\* C8: a hang in one job does not abort the other timeline: while a
\* forecast run hangs, the alert job has started and is still being started;
\* while an alert run hangs, the forecast job has started or its one-shot
\* timer is armed.
C8_HangLeavesOtherTimeline ==
    (verified = "ok" /\ alive) =>
        /\ (\E j \in jobs : j.job = "forecast" /\ j.due = Never) =>
              (alFirst # "none" /\ AlertSource)
        /\ (\E j \in jobs : j.job = "alert" /\ j.due = Never) =>
              (HasTimer("fcTimeout") \/ fcCount >= 1)

\* The key=value texts a value of the mapping contributes, in order.
PairsOf(key, v) ==
    IF IsScalar(v) THEN <<key \o <<"=">> \o Text(v)>>
    ELSE IF v.type = "array"
           THEN LET scalars == SelectSeq(v.items, IsScalar)
                IN [i \in 1..Len(scalars) |-> key \o <<"=">> \o Text(scalars[i])]
           ELSE <<>>

RECURSIVE AllPairs(_)
AllPairs(options) ==
    IF options = <<>> THEN <<>>
    ELSE PairsOf(Head(options)[1], Head(options)[2]) \o AllPairs(Tail(options))

RECURSIVE JoinAmp(_)
JoinAmp(pairs) ==
    IF pairs = <<>> THEN <<>>
    ELSE IF Len(pairs) = 1 THEN pairs[1]
    ELSE pairs[1] \o <<"&">> \o JoinAmp(Tail(pairs))

\* C9: queryBuilder returns the request, '?', and the key=value pairs of
\* the scalar values and scalar array elements in key and element order,
\* each pair after the first preceded by exactly one '&'.
C9_AmpersandJoined ==
    qbOut # <<>> => qbOut = qbReq \o <<"?">> \o JoinAmp(AllPairs(qbOpts))

\* C10: each repeating timer is armed at most once, and only after the
\* first run of its job returned normally; at most one forecast timer
\* (one-shot or repeating) and at most one alert interval exist.
C10_ArmedOnceAfterFirstRun ==
    /\ fcArms <= 1 /\ alArms <= 1
    /\ fcArms = 1 => fcFirst = "ok"
    /\ alArms = 1 => alFirst = "ok"
    /\ CountTimers({"fcInterval"}) <= fcArms
    /\ CountTimers({"alInterval"}) <= alArms
    /\ CountTimers({"fcTimeout", "fcInterval"}) <= 1
    /\ CountTimers({"alInterval"}) <= 1

\* Both intervals are armed and the forecast interval has fired.
C10_Witness ==
    /\ fcArms = 1 /\ alArms = 1
    /\ HasTimer("fcInterval") /\ HasTimer("alInterval")
    /\ fcCount >= 2

=============================================================================
